---- MODULE Spec2Model ----
(***************************************************************************)
(* A model of the eKonsulta API gateway (hnbmunoz/baseExpress): the User   *)
(* collection (models/User.ts), the token it signs, the protect and        *)
(* authorize middleware (middleware/auth.ts), the auth and users           *)
(* controllers and the error handler.                                      *)
(*                                                                         *)
(* A request is a record in a slot of reqs.  Node runs a handler without   *)
(* interruption up to its next `await`, so every action below is one such  *)
(* stretch: the arrival of a request up to its first await, or the         *)
(* completion of one awaited operation (a collection operation, a bcrypt   *)
(* call) together with the code that runs on its result up to the next     *)
(* await or the response.                                                  *)
(*                                                                         *)
(* Text is a sequence of string fragments: a literal 'abc' is <<"abc">>,   *)
(* a template literal or a join is the concatenation of its parts.         *)
(* A password value is a tagged tuple: <<"str", s>> a JSON string,         *)
(* <<"num", s>> a JSON number with decimal digits s, <<"undefined">> a     *)
(* missing field, <<"hash", salt, v>> the bcrypt hash string of v.         *)
(* The fields name, phone, address and createdAt of a user, which no       *)
(* middleware or handler reads, are not part of the state.                 *)
(***************************************************************************)
EXTENDS Integers, Sequences, FiniteSets, TLC

VARIABLES
    limits,   \* the stores of the rate limiters: limiter -> IP -> hits and reset time
    probe,    \* a request at apiKeyAuth: its path, its X-API-Key header, the outcome
    freed,    \* for the properties: the usernames and emails of the deleted identities
    failure,  \* an error passed to next(err) and what errorHandler makes of it
    enumAllowsNull, \* the Mongoose installed (the sources pin no version): its
              \* enum validator passes null (8.x) or refuses it (up to 7.x)
    env,      \* process.env: JWT_SECRET and API_KEYS (JWT_EXPIRE is JwtExpire)
    now,      \* the clock jsonwebtoken reads, in ticks
    users,    \* the User collection: _id -> document
    nextId,   \* the next fresh ObjectId
    issued,   \* the tokens the clients hold (every one was sent in a response)
    plain,    \* for the properties: _id -> the password last supplied for it
    reqs      \* the request slots: inputs, position and response of each request

vars == <<limits, probe, freed, failure, enumAllowsNull, env, now, users, nextId, issued, plain, reqs>>

(***************************************************************************)
(* Bounds                                                                  *)
(***************************************************************************)
MaxIds == 2        \* ObjectIds ever assigned
MaxTime == 2       \* clock ticks
MaxTokens == 2     \* tokens the clients keep
JwtExpire == 1     \* process.env.JWT_EXPIRE, in ticks

(***************************************************************************)
(* Values                                                                  *)
(***************************************************************************)
Absent == "undefined"
\* the JSON null
Null == "null"
AbsentPw == <<"undefined">>
Str(s) == <<"str", s>>
Num(s) == <<"num", s>>

\* JavaScript truthiness of a plain string field (!x)
Falsy(v) == v \in {Absent, ""}
\* JavaScript truthiness of a password value
FalsyPw(v) == v \in {AbsentPw, Str("")}
\* typeof v === 'string'
IsString(v) == v[1] \in {"str", "hash"}
\* Mongoose's cast of a value to the schema type String
CastString(v) == IF v[1] = "num" THEN Str(v[2]) ELSE v
\* the length of a string value
StrLen(v) == IF v[1] = "hash" THEN 60 ELSE Len(v[2])

Secret == "k1"
Roles == {"administrator", "client", "employee"}

(***************************************************************************)
(* bcryptjs                                                                *)
(***************************************************************************)
Salts == {"s1", "s2"}

\* bcrypt.hash(v, salt) of a string v
BcryptHash(v, salt) == <<"hash", salt, v>>

\* bcrypt.compare(s, hash): rejects unless both are strings, is false for a
\* hash that has not the length of a bcrypt hash, and otherwise hashes s with
\* the salt of hash and compares
BcryptCompare(s, hash) ==
    IF ~IsString(s) \/ ~IsString(hash)
    THEN [threw |-> TRUE, match |-> FALSE]
    ELSE IF StrLen(hash) # 60
    THEN [threw |-> FALSE, match |-> FALSE]
    ELSE [threw |-> FALSE, match |-> BcryptHash(s, hash[2]) = hash]

(***************************************************************************)
(* jsonwebtoken                                                            *)
(***************************************************************************)
\* a word that is not a JWT, and the empty word
Garbage == [sub |-> 0, iat |-> 0, exp |-> 0, key |-> "malformed"]
EmptyWord == [sub |-> 0, iat |-> 0, exp |-> 0, key |-> ""]

\* (mutant) a sign whose expiration does not count from the issuance
JwtSignFromStart(id, secret, t) == [sub |-> id, iat |-> t, exp |-> JwtExpire, key |-> secret]

\* jwt.sign({ id }, secret, { expiresIn }) at time t
JwtSign(id, secret, t) == [sub |-> id, iat |-> t, exp |-> t + JwtExpire, key |-> secret]

\* (mutant) a verify that does not check the expiration
JwtVerifyNoExpiry(token, secret, t) ==
    IF token.key # secret THEN [threw |-> TRUE, id |-> 0]
    ELSE [threw |-> FALSE, id |-> token.sub]

\* jwt.verify(token, secret) at time t: throws on a malformed token, on a
\* signature made with another key and from the expiration instant on
JwtVerify(token, secret, t) ==
    IF token.key # secret \/ t >= token.exp
    THEN [threw |-> TRUE, id |-> 0]
    ELSE [threw |-> FALSE, id |-> token.sub]

(***************************************************************************)
(* The Authorization header: NoHeader, or the words h.split(' ') gives,    *)
(* the first a sequence of characters and the others tokens.               *)
(***************************************************************************)
NoHeader == <<>>
Bearer == <<"B", "e", "a", "r", "e", "r">>
LowerBearer == <<"b", "e", "a", "r", "e", "r">>
Basic == <<"B", "a", "s", "i", "c">>

\* String.prototype.startsWith
StartsWith(w, p) == Len(w) >= Len(p) /\ SubSeq(w, 1, Len(p)) = p

\* auth.ts 12-20: the token protect takes from the header, EmptyWord when it
\* takes none (both are falsy at line 23)
ExtractToken(h) ==
    IF h # NoHeader /\ StartsWith(h[1], Bearer) /\ Len(h) >= 2
    THEN h[2]
    ELSE EmptyWord

(***************************************************************************)
(* The User schema (models/User.ts) and Mongoose                           *)
(***************************************************************************)
\* the e-mail addresses the pattern of the schema matches, among those used
WellFormedEmails == {"a@x.com", "b@x.com", "c@x.com"}
EmailMatches(e) == e \in WellFormedEmails

NoBody == [username |-> Absent, email |-> Absent, role |-> Absent, password |-> AbsentPw]

\* trim: true on username: the string without the white space around it
Trim(v) == CASE v = " u1 " -> "u1" [] v = "  " -> "" [] OTHER -> v

\* (mutant) a document whose role is never the caller's
NewDocumentAsClient(body) ==
    [username |-> Trim(body.username),
     email |-> body.email,
     role |-> "client",
     password |-> CastString(body.password)]

\* new User(body): the casts and the default of role.  Every body carries a
\* valid name, and no phone or address: these paths are left out.
NewDocument(body) ==
    [username |-> Trim(body.username),
     email |-> body.email,
     role |-> IF body.role = Absent THEN "client" ELSE body.role,
     password |-> CastString(body.password)]

\* the validators of one path, as the messages of those that fail
UsernameErrors(v) == IF Falsy(v) THEN << <<"Please add a username">> >> ELSE <<>>
EmailErrors(v) ==
    IF Falsy(v) THEN << <<"Please add an email">> >>
    ELSE IF ~EmailMatches(v) THEN << <<"Please add a valid email">> >>
    ELSE <<>>
RoleErrors(v) ==
    IF v \in Roles \/ (v = Null /\ enumAllowsNull) THEN <<>>
    ELSE << <<v, " is not a valid enum value for path role.">> >>
PasswordErrors(v) ==
    IF FalsyPw(v) THEN << <<"Please add a password">> >>
    ELSE IF StrLen(v) < 6 THEN << <<"Password must be at least 6 characters">> >>
    ELSE <<>>

\* document validation before save: the messages of the failing paths
ValidateDocument(doc) ==
    UsernameErrors(doc.username) \o EmailErrors(doc.email)
        \o RoleErrors(doc.role) \o PasswordErrors(doc.password)

\* the update findByIdAndUpdate(id, body) applies: the paths of the body, cast
CastUpdate(body) ==
    [body EXCEPT !.username = Trim(body.username), !.password = CastString(body.password)]

\* the update validators (runValidators: true): the validators of the paths
\* the update sets
ValidateUpdate(upd) ==
    (IF upd.username = Absent THEN <<>> ELSE UsernameErrors(upd.username))
        \o (IF upd.email = Absent THEN <<>> ELSE EmailErrors(upd.email))
        \o (IF upd.role = Absent THEN <<>> ELSE RoleErrors(upd.role))
        \o (IF upd.password = AbsentPw THEN <<>> ELSE PasswordErrors(upd.password))

\* the document with the paths of the update set
ApplyUpdate(doc, upd) ==
    [username |-> IF upd.username = Absent THEN doc.username ELSE upd.username,
     email |-> IF upd.email = Absent THEN doc.email ELSE upd.email,
     role |-> IF upd.role = Absent THEN doc.role ELSE upd.role,
     password |-> IF upd.password = AbsentPw THEN doc.password ELSE upd.password]

\* the unique indexes (unique: true on username and email): a document with
\* these values collides with a stored document other than self
Collides(coll, self, doc) ==
    \E i \in DOMAIN coll :
        i # self /\ (coll[i].username = doc.username \/ coll[i].email = doc.email)

\* UserSchema.pre('save'), lines 55-64: a new document has its password
\* modified, and it is replaced by its hash with a generated salt
PreSave(doc, salt) == [doc EXCEPT !.password = BcryptHash(doc.password, salt)]

\* matchPassword, lines 83-85
MatchPassword(doc, enteredPassword) == BcryptCompare(enteredPassword, doc.password)

\* getSignedJwtToken, lines 67-80
GetSignedJwtToken(id, e, t) ==
    IF e.JWT_SECRET = Absent
    THEN [threw |-> TRUE, token |-> Garbage]
    ELSE [threw |-> FALSE, token |-> JwtSign(id, e.JWT_SECRET, t)]

\* a document as a query returns it: password is select: false
Selected(id, doc) ==
    [id |-> id, username |-> doc.username, email |-> doc.email, role |-> doc.role]
\* a document as create returns it: the document that was saved
Saved(id, doc) ==
    [id |-> id, username |-> doc.username, email |-> doc.email, role |-> doc.role,
     password |-> doc.password]

(***************************************************************************)
(* The errors the handlers pass to next and the error handler              *)
(***************************************************************************)
NoErrors == <<>>
ValidationError(msgs) ==
    [name |-> "ValidationError", code |-> 0, status |-> 0,
     message |-> <<"User validation failed">>, errors |-> msgs]
DuplicateKeyError ==
    [name |-> "MongoServerError", code |-> 11000, status |-> 0,
     message |-> <<"E11000 duplicate key error collection">>, errors |-> NoErrors]
CastError ==
    [name |-> "CastError", code |-> 0, status |-> 0,
     message |-> <<"Cast to ObjectId failed">>, errors |-> NoErrors]
PlainError(msg) ==
    [name |-> "Error", code |-> 0, status |-> 0, message |-> msg, errors |-> NoErrors]
NoSecretError == PlainError(<<"JWT_SECRET is not defined in environment variables">>)
IllegalArgumentsError == PlainError(<<"Illegal arguments: number, string">>)

\* Array.prototype.join(', ') of the messages
RECURSIVE Join(_)
Join(msgs) ==
    IF msgs = <<>> THEN <<>>
    ELSE IF Len(msgs) = 1 THEN msgs[1]
    ELSE msgs[1] \o <<", ">> \o Join(Tail(msgs))

Json(status, body) == [status |-> status, body |-> body]

\* (mutant) an error handler without the duplicate key check
ErrorHandlerNoDuplicateKey(err) ==
    LET e0 == [message |-> err.message, status |-> err.status]
        e1 == IF err.name = "CastError"
              THEN [message |-> <<"Resource not found">>, status |-> 404] ELSE e0
        e3 == IF err.name = "ValidationError" /\ err.errors # NoErrors
              THEN [message |-> Join(err.errors), status |-> 400] ELSE e1
    IN  Json(IF e3.status # 0 THEN e3.status ELSE 500,
             [success |-> FALSE,
              error |-> IF e3.message \in {<<>>, <<"">>} THEN <<"Server Error">>
                        ELSE e3.message])

\* (mutant) an error handler whose first matching check decides
ErrorHandlerFirstWins(err) ==
    LET e == IF err.name = "CastError"
             THEN [message |-> <<"Resource not found">>, status |-> 404]
             ELSE IF err.code = 11000
             THEN [message |-> <<"Duplicate field value entered">>, status |-> 400]
             ELSE IF err.name = "ValidationError" /\ err.errors # NoErrors
             THEN [message |-> Join(err.errors), status |-> 400]
             ELSE [message |-> err.message, status |-> err.status]
    IN  Json(IF e.status # 0 THEN e.status ELSE 500,
             [success |-> FALSE,
              error |-> IF e.message \in {<<>>, <<"">>} THEN <<"Server Error">>
                        ELSE e.message])

\* errorHandler, error.ts 10-44: the copy { ...err } keeps the own status of
\* the error; each check that matches replaces the copy
ErrorHandler(err) ==
    LET e0 == [message |-> err.message, status |-> err.status]
        e1 == IF err.name = "CastError"
              THEN [message |-> <<"Resource not found">>, status |-> 404] ELSE e0
        e2 == IF err.code = 11000
              THEN [message |-> <<"Duplicate field value entered">>, status |-> 400] ELSE e1
        e3 == IF err.name = "ValidationError" /\ err.errors # NoErrors
              THEN [message |-> Join(err.errors), status |-> 400] ELSE e2
    IN  Json(IF e3.status # 0 THEN e3.status ELSE 500,
             [success |-> FALSE,
              error |-> IF e3.message \in {<<>>, <<"">>} THEN <<"Server Error">>
                        ELSE e3.message])

(***************************************************************************)
(* Requests                                                                *)
(***************************************************************************)
\* routes/users.ts: every route of the router is behind protect and
\* authorize('administrator')
UsersRoutes == {"list", "get", "create", "update", "delete"}
\* routes/auth.ts (not among the sources; getMe is documented @access
\* Private and answers 401 without req.user): protect is mounted before getMe
AuthProtectedRoutes == {"me"}
ProtectedRoutes == UsersRoutes \cup AuthProtectedRoutes

EmptyObject == [empty |-> TRUE]
NoUser == [id |-> 0]
NoDoc == [username |-> Absent]
NoRes == [status |-> 0]
NoFields == <<>>
NoQuery == [page |-> Absent, limit |-> Absent, fields |-> NoFields]
\* a malformed :id, which no ObjectId casts from
BadId == 0

\* the inputs of a request: the route, the Authorization header, the JSON
\* body, the :id parameter and the query string
Input(ep, hdr, body, id, q) == [ep |-> ep, hdr |-> hdr, body |-> body, id |-> id, q |-> q]

\* a slot: the inputs, the position pc of the request, the middleware and
\* handler that have run (ran), req.user, the decoded subject of the token,
\* the document being saved, the count of getUsers, the response the timer
\* of requestTimeout has sent (sent) and the response of the request; and,
\* for the properties, the time at which the request arrived (at), whether
\* the subject of the token it presents had been deleted by then (gone) and
\* whether the collection then held no document with the username or the
\* email of its body (fresh)
Slot(r, pc, ran, sub, user, doc, total, res) ==
    [ep |-> r.ep, hdr |-> r.hdr, body |-> r.body, id |-> r.id, q |-> r.q,
     pc |-> pc, ran |-> ran, sub |-> sub, user |-> user, doc |-> doc,
     total |-> total, sent |-> NoRes, res |-> res, at |-> 0, gone |-> FALSE,
     fresh |-> FALSE]

Idle == Slot(Input("none", NoHeader, NoBody, BadId, NoQuery), "idle", <<>>, 0, NoUser,
             NoDoc, 0, NoRes)

\* the request of slot q waits for pc, having run ran
Await(q, pc, ran) == [q EXCEPT !.pc = pc, !.ran = ran]
\* the request of slot q is answered: res.status(..).json(..) sends res,
\* unless the timer of requestTimeout has sent its response already: then
\* json throws (the headers are sent), the handler passes the error on, no
\* second response is written and the client has the response of the timer
Respond(q, ran, res) ==
    [q EXCEPT !.pc = "done", !.ran = ran, !.res = IF q.sent # NoRes THEN q.sent ELSE res]

\* requestTimeout, error.ts 292-297
RequestTimedOut == Json(408, [success |-> FALSE, error |-> <<"Request timeout">>])

Unauthorized ==
    Json(401, [success |-> FALSE, message |-> <<"Not authorized to access this route">>])
UserNotFound == Json(401, [success |-> FALSE, message |-> <<"User not found">>])
InvalidCredentials == Json(401, [success |-> FALSE, message |-> <<"Invalid credentials">>])
MissingCredentials ==
    Json(400, [success |-> FALSE,
               message |-> <<"Please provide an email or username and password">>])
Forbidden(role) ==
    Json(403, [success |-> FALSE,
               message |-> <<"User role ", role, " is not authorized to access this route">>])
NotFound(id) ==
    Json(404, [success |-> FALSE, message |-> <<"User not found with id of ", ToString(id)>>])

(***************************************************************************)
(* apiKeyAuth (middleware/security.ts), mounted in front of every router.  *)
(* A text is a sequence of fragments, "," being one of them; API_KEYS and  *)
(* the X-API-Key header are Str(text), or NoApiKey when undefined.  A path *)
(* is the sequence of its segments, and of what follows the last of them.  *)
(***************************************************************************)
NoApiKey == <<"undefined">>

\* String.prototype.split(',')
RECURSIVE SplitComma(_)
SplitComma(t) ==
    LET commas == {i \in 1..Len(t) : t[i] = ","}
        first == CHOOSE i \in commas : \A j \in commas : i <= j
    IN  IF commas = {} THEN <<t>>
        ELSE <<SubSeq(t, 1, first - 1)>> \o SplitComma(SubSeq(t, first + 1, Len(t)))

\* error.ts 148: process.env.API_KEYS?.split(',') || []
ValidApiKeys(e) == IF e.API_KEYS = NoApiKey THEN <<>> ELSE SplitComma(e.API_KEYS[2])

\* error.ts 151-156
PublicEndpoints ==
    {<<"/api/v1", "/health">>, <<"/api-docs">>, <<"/api/v1", "/auth", "/register">>,
     <<"/api/v1", "/auth", "/login">>}

ApiKeyRequired == Json(401, [success |-> FALSE, error |-> <<"API key is required">>])
InvalidApiKey == Json(401, [success |-> FALSE, error |-> <<"Invalid API key">>])

\* apiKeyAuth, error.ts 146-189: NoRes when it calls next
ApiKeyAuth(e, path, apiKey) ==
    LET validApiKeys == ValidApiKeys(e)
    IN  IF \E endpoint \in PublicEndpoints : StartsWith(path, endpoint) THEN NoRes
        ELSE IF Len(validApiKeys) > 0
        THEN IF apiKey \in {NoApiKey, Str(<<>>)} THEN ApiKeyRequired
             ELSE IF \A i \in 1..Len(validApiKeys) : validApiKeys[i] # apiKey[2]
             THEN InvalidApiKey
             ELSE NoRes
        ELSE NoRes

\* no request is at the middleware in front of the routers
NoProbe == [path |-> <<"/">>, ip |-> "ip1", key |-> NoApiKey, out |-> "none", res |-> NoRes]

(***************************************************************************)
(* The rate limiters (config/security.ts), mounted after apiKeyAuth and in *)
(* front of the routers.  Time is in minutes.                              *)
(***************************************************************************)
\* types/index.ts 111-114: the limiters in the order of mounting
RateLimiterNames == <<"health", "docs", "auth", "general">>

\* security.ts 24-36 and types/index.ts 111-114: the window in minutes, the
\* limit and the path each limiter is mounted on
RateLimiter ==
    [health  |-> [mount |-> <<"/api/v1", "/health">>, window |-> 1, max |-> 30],
     docs    |-> [mount |-> <<"/api-docs">>, window |-> 5, max |-> 20],
     auth    |-> [mount |-> <<"/api/v1", "/auth">>, window |-> 15, max |-> 5],
     general |-> [mount |-> <<"/api/v1">>, window |-> 15, max |-> 100]]

\* the client IPs (req.ip is the key of the store: the default key generator)
Clients == {"ip1", "ip2"}

\* a client the store has no record of; passed, for the properties, counts
\* the requests of the window that went on to the routers
NoHits == [hits |-> 0, resetTime |-> 0, passed |-> 0]
NoLimits == [n \in DOMAIN RateLimiter |-> [ip \in Clients |-> NoHits]]

\* security.ts 9-12
TooManyRequests ==
    Json(429, [success |-> FALSE,
               error |-> <<"Too many requests from this IP, please try again later.">>])

\* the memory store of express-rate-limit counts a hit: a client without a
\* record, or whose window is over, starts a window with this hit
Increment(client, window, t) ==
    IF client.hits = 0 \/ client.resetTime <= t
    THEN [hits |-> 1, resetTime |-> t + window, passed |-> 0]
    ELSE [client EXCEPT !.hits = @ + 1]

\* (mutant) a limiter that lets one request more than max through
OverLimitLax(client, max) == client.hits > max + 1

\* express-rate-limit: the request is refused when the hits exceed max
OverLimit(client, max) == client.hits > max

\* app.use(path, limiter): the limiter sees the paths under its mount
Mounted(n, path) == StartsWith(path, RateLimiter[n].mount)

\* the limiters from the i-th on see the request in turn: each one mounted on
\* the path counts it and either refuses it (429) or calls next
RECURSIVE RunLimiters(_, _, _, _, _)
RunLimiters(i, store, path, ip, t) ==
    IF i > Len(RateLimiterNames) THEN [store |-> store, res |-> NoRes]
    ELSE LET n == RateLimiterNames[i]
             client == Increment(store[n][ip], RateLimiter[n].window, t)
             counted == [store EXCEPT ![n][ip] = client]
         IN  IF ~Mounted(n, path) THEN RunLimiters(i + 1, store, path, ip, t)
             ELSE IF OverLimit(client, RateLimiter[n].max)
             THEN [store |-> counted, res |-> TooManyRequests]
             ELSE RunLimiters(i + 1, counted, path, ip, t)

\* for the properties: the request went on to the routers
Reached(store, path, ip) ==
    [n \in DOMAIN store |->
        [j \in DOMAIN store[n] |->
            IF j = ip /\ Mounted(n, path)
            THEN [store[n][j] EXCEPT !.passed = @ + 1] ELSE store[n][j]]]

(***************************************************************************)
(* middleware/auth.ts                                                      *)
(***************************************************************************)
\* protect, lines 12-38: up to the await of User.findById
ProtectStart(q, e, t) ==
    LET token == ExtractToken(q.hdr)
        ran == q.ran \o <<"protect">>
    IN  IF token = EmptyWord THEN Respond(q, ran, Unauthorized)
        ELSE IF e.JWT_SECRET = Absent THEN Respond(q, ran, Unauthorized)
        ELSE LET decoded == JwtVerify(token, e.JWT_SECRET, t)
             IN  IF decoded.threw THEN Respond(q, ran, Unauthorized)
                 ELSE [Await(q, "protect", ran) EXCEPT !.sub = decoded.id]

\* (mutant) an authorize that admits every authenticated user
AuthorizeAnyUser(roles, user) == user # NoUser

\* authorize(...roles), lines 60-71: TRUE when the request goes on
Authorize(roles, user) == user # NoUser /\ user.role \in roles

(***************************************************************************)
(* The handlers, each up to its first await                                *)
(***************************************************************************)
\* User.create(body), up to the await of the pre-save hook: the document is
\* made and validated (register 15-27, createUser 139-140)
CreateStart(q, ran) ==
    LET doc == NewDocument(q.body)
        errs == ValidateDocument(doc)
    IN  IF errs # <<>> THEN Respond(q, ran, ErrorHandler(ValidationError(errs)))
        ELSE [Await(q, "save", ran) EXCEPT !.doc = doc]

\* (mutant) a login that checks the identifiers only
LoginStartAnyPassword(q, ran) ==
    IF Falsy(q.body.email) /\ Falsy(q.body.username)
    THEN Respond(q, ran, MissingCredentials)
    ELSE Await(q, "db", ran)

\* login, lines 45-66
LoginStart(q, ran) ==
    IF (Falsy(q.body.email) /\ Falsy(q.body.username)) \/ FalsyPw(q.body.password)
    THEN Respond(q, ran, MissingCredentials)
    ELSE Await(q, "db", ran)

\* (mutant) a logout that answers without a body
LogoutNoContent(q, ran) == Respond(q, ran, Json(204, [success |-> TRUE]))

\* logout, lines 128-137
Logout(q, ran) == Respond(q, ran, Json(200, [success |-> TRUE, data |-> EmptyObject]))

\* getMe, lines 103-112
GetMeStart(q, ran) ==
    IF q.user = NoUser THEN Respond(q, ran, Unauthorized) ELSE Await(q, "db", ran)

\* getUser 109-110 and deleteUser 194-195: the :id is cast to an ObjectId
ByIdStart(q, ran) ==
    IF q.id = BadId THEN Respond(q, ran, ErrorHandler(CastError)) ELSE Await(q, "db", ran)

\* updateUser, lines 161-165: the :id and the update are cast and the update
\* validators run before the command is sent
UpdateStart(q, ran) ==
    LET upd == CastUpdate(q.body)
        errs == ValidateUpdate(upd)
    IN  IF q.id = BadId THEN Respond(q, ran, ErrorHandler(CastError))
        ELSE IF errs # <<>> THEN Respond(q, ran, ErrorHandler(ValidationError(errs)))
        ELSE [Await(q, "db", ran) EXCEPT !.doc = upd]

HandlerStart(q) ==
    LET ran == q.ran \o <<q.ep>>
    IN  CASE q.ep \in {"register", "create"} -> CreateStart(q, ran)
          [] q.ep = "login" -> LoginStart(q, ran)
          [] q.ep = "logout" -> Logout(q, ran)
          [] q.ep = "me" -> GetMeStart(q, ran)
          [] q.ep = "list" -> Await(q, "db", ran)
          [] q.ep \in {"get", "delete"} -> ByIdStart(q, ran)
          [] q.ep = "update" -> UpdateStart(q, ran)

\* (mutant) a users router that does not mount authorize
AfterProtectUnguarded(q) == HandlerStart(q)

\* routes/users.ts 15-17: after protect has called next, authorize
\* ('administrator') runs on the routes of the users router, then the handler
AfterProtect(q) ==
    IF q.ep \in UsersRoutes
    THEN IF Authorize({"administrator"}, q.user)
         THEN HandlerStart([q EXCEPT !.ran = q.ran \o <<"authorize">>])
         ELSE Respond(q, q.ran \o <<"authorize">>,
                      Forbidden(IF q.user # NoUser THEN q.user.role ELSE "undefined"))
    ELSE HandlerStart(q)

(***************************************************************************)
(* Actions                                                                 *)
(***************************************************************************)
\* A response stays in its slot until it is collected, and nothing else
\* happens before that: the state with a response in it is the state in
\* which the response was sent.
Settled == \A s \in DOMAIN reqs : reqs[s].pc # "done"

Collect(s) ==
    /\ reqs[s].pc = "done"
    /\ reqs' = [reqs EXCEPT ![s] = Idle]
    /\ UNCHANGED <<limits, probe, freed, failure, enumAllowsNull, env, now, users, nextId, issued, plain>>

\* the creations in flight (each may take a fresh _id)
PendingCreates ==
    Cardinality({s \in DOMAIN reqs :
        reqs[s].ep \in {"register", "create"} /\ reqs[s].pc \notin {"idle", "done"}})

\* a request with inputs r arrives in the first free slot and runs up to its
\* first await
Receive(s, r) ==
    /\ Settled
    /\ reqs[s].pc = "idle"
    /\ \A s2 \in DOMAIN reqs : s2 < s => reqs[s2].pc # "idle"
    /\ r.ep \in {"register", "create"} => nextId + PendingCreates <= MaxIds
    /\ LET q == [Slot(r, "recv", <<>>, 0, NoUser, NoDoc, 0, NoRes) EXCEPT
                    !.at = now,
                    !.gone = ExtractToken(r.hdr).sub \in (1..(nextId - 1)) \ DOMAIN users,
                    !.fresh = ~Collides(users, 0, NewDocument(r.body))]
       IN  reqs' = [reqs EXCEPT ![s] = IF r.ep \in ProtectedRoutes
                                       THEN ProtectStart(q, env, now)
                                       ELSE HandlerStart(q)]
    /\ UNCHANGED <<limits, probe, freed, failure, enumAllowsNull, env, now, users, nextId, issued, plain>>

\* (mutant) a protect that goes on without the user it did not find
ProtectFindByIdUnchecked(s) ==
    LET q == reqs[s]
    IN  /\ Settled
        /\ q.pc = "protect"
        /\ reqs' = [reqs EXCEPT ![s] =
                AfterProtect([q EXCEPT !.user = IF q.sub \in DOMAIN users
                                                THEN Selected(q.sub, users[q.sub])
                                                ELSE NoUser])]
        /\ UNCHANGED <<limits, probe, freed, failure, enumAllowsNull, env, now, users, nextId, issued, plain>>

\* (mutant) a protect that gives the identity the role it was registered
\* with ("u1" as administrator, every other as employee) and not the stored one
ProtectFindByIdFirstRole(s) ==
    LET q == reqs[s]
    IN  /\ Settled
        /\ q.pc = "protect"
        /\ reqs' = [reqs EXCEPT ![s] =
                IF q.sub \notin DOMAIN users
                THEN Respond(q, q.ran, UserNotFound)
                ELSE AfterProtect([q EXCEPT !.user =
                        [Selected(q.sub, users[q.sub]) EXCEPT
                            !.role = IF users[q.sub].username = "u1"
                                     THEN "administrator" ELSE "employee"]])]
        /\ UNCHANGED <<limits, probe, freed, failure, enumAllowsNull, env, now, users, nextId, issued, plain>>

\* protect, lines 38-49: User.findById(decoded.id) completes
ProtectFindById(s) ==
    LET q == reqs[s]
    IN  /\ Settled
        /\ q.pc = "protect"
        /\ reqs' = [reqs EXCEPT ![s] =
                IF q.sub \notin DOMAIN users
                THEN Respond(q, q.ran, UserNotFound)
                ELSE AfterProtect([q EXCEPT !.user = Selected(q.sub, users[q.sub])])]
        /\ UNCHANGED <<limits, probe, freed, failure, enumAllowsNull, env, now, users, nextId, issued, plain>>

\* the pre-save hook of User.create completes: bcrypt.genSalt and bcrypt.hash
HashPassword(s, salt) ==
    LET q == reqs[s]
    IN  /\ Settled
        /\ q.pc = "save"
        /\ reqs' = [reqs EXCEPT ![s] = [Await(q, "db", q.ran) EXCEPT !.doc = PreSave(q.doc, salt)]]
        /\ UNCHANGED <<limits, probe, freed, failure, enumAllowsNull, env, now, users, nextId, issued, plain>>

\* the client keeps a token it was sent while it has room for it
Keep(token) == IF Cardinality(issued) < MaxTokens THEN issued \cup {token} ELSE issued

\* sendTokenResponse, auth controller 140-152, in the try of its caller: the
\* response, and the token when one is sent
SendTokenResponse(id, statusCode, e, t) ==
    LET signed == GetSignedJwtToken(id, e, t)
    IN  IF signed.threw THEN ErrorHandler(NoSecretError)
        ELSE Json(statusCode, [success |-> TRUE, token |-> signed.token])

\* (mutant) an insert that no index refuses
InsertNeverFails(q) == FALSE

\* the insert of User.create: the unique indexes decide, and the new
\* document gets a fresh _id
InsertFails(q) == Collides(users, 0, q.doc)
Inserted(q) == (nextId :> q.doc) @@ users

\* register, lines 19-32: User.create completes
RegisterSave(s) ==
    LET q == reqs[s]
        res == SendTokenResponse(nextId, 201, env, now)
    IN  /\ Settled
        /\ q.pc = "db" /\ q.ep = "register"
        /\ IF InsertFails(q)
           THEN /\ reqs' = [reqs EXCEPT ![s] = Respond(q, q.ran, ErrorHandler(DuplicateKeyError))]
                /\ UNCHANGED <<users, nextId, issued, plain>>
           ELSE /\ nextId <= MaxIds
                /\ users' = Inserted(q)
                /\ plain' = (nextId :> CastString(q.body.password)) @@ plain
                /\ nextId' = nextId + 1
                /\ reqs' = [reqs EXCEPT ![s] = Respond(q, q.ran, res)]
                /\ issued' = IF Respond(q, q.ran, res).res.status = 201
                             THEN Keep(res.body.token) ELSE issued
        /\ UNCHANGED <<limits, probe, freed, failure, enumAllowsNull, env, now>>

\* createUser, lines 140-148: User.create completes
CreateUserSave(s) ==
    LET q == reqs[s]
    IN  /\ Settled
        /\ q.pc = "db" /\ q.ep = "create"
        /\ IF InsertFails(q)
           THEN /\ reqs' = [reqs EXCEPT ![s] = Respond(q, q.ran, ErrorHandler(DuplicateKeyError))]
                /\ UNCHANGED <<users, nextId, plain>>
           ELSE /\ nextId <= MaxIds
                /\ users' = Inserted(q)
                /\ plain' = (nextId :> CastString(q.body.password)) @@ plain
                /\ nextId' = nextId + 1
                /\ reqs' = [reqs EXCEPT ![s] = Respond(q, q.ran,
                        Json(201, [success |-> TRUE, data |-> Saved(nextId, q.doc)]))]
        /\ UNCHANGED <<limits, probe, freed, failure, enumAllowsNull, env, now, issued>>

\* login, lines 57-90: User.findOne(query).select('+password') completes,
\* then matchPassword and sendTokenResponse
LoginFindOne(s) ==
    LET q == reqs[s]
        found == IF ~Falsy(q.body.email)
                 THEN {i \in DOMAIN users : users[i].email = q.body.email}
                 ELSE {i \in DOMAIN users : users[i].username = q.body.username}
        id == CHOOSE i \in found : TRUE
        isMatch == MatchPassword(users[id], q.body.password)
        res == IF found = {} THEN InvalidCredentials
               ELSE IF isMatch.threw THEN ErrorHandler(IllegalArgumentsError)
               ELSE IF ~isMatch.match THEN InvalidCredentials
               ELSE SendTokenResponse(id, 200, env, now)
    IN  /\ Settled
        /\ q.pc = "db" /\ q.ep = "login"
        /\ reqs' = [reqs EXCEPT ![s] = Respond(q, q.ran, res)]
        /\ issued' = IF Respond(q, q.ran, res).res.status = 200
                     THEN Keep(res.body.token) ELSE issued
        /\ UNCHANGED <<limits, probe, freed, failure, enumAllowsNull, env, now, users, nextId, plain>>

NullDoc == [null |-> TRUE]

\* getMe, lines 112-120: User.findById(req.user.id) completes
GetMeFindById(s) ==
    LET q == reqs[s]
        user == IF q.user.id \in DOMAIN users
                THEN Selected(q.user.id, users[q.user.id]) ELSE NullDoc
    IN  /\ Settled
        /\ q.pc = "db" /\ q.ep = "me"
        /\ reqs' = [reqs EXCEPT ![s] = Respond(q, q.ran,
                Json(200, [success |-> TRUE, data |-> user]))]
        /\ UNCHANGED <<limits, probe, freed, failure, enumAllowsNull, env, now, users, nextId, issued, plain>>

\* getUser, lines 110-126: User.findById(req.params.id) completes
GetUserFindById(s) ==
    LET q == reqs[s]
    IN  /\ Settled
        /\ q.pc = "db" /\ q.ep = "get"
        /\ reqs' = [reqs EXCEPT ![s] = Respond(q, q.ran,
                IF q.id \notin DOMAIN users THEN NotFound(q.id)
                ELSE Json(200, [success |-> TRUE, data |-> Selected(q.id, users[q.id])]))]
        /\ UNCHANGED <<limits, probe, freed, failure, enumAllowsNull, env, now, users, nextId, issued, plain>>

\* updateUser, lines 162-181: User.findByIdAndUpdate completes; no save
\* hook runs on it, the update is written as it was cast
UpdateUserDb(s) ==
    LET q == reqs[s]
        doc == ApplyUpdate(users[q.id], q.doc)
    IN  /\ Settled
        /\ q.pc = "db" /\ q.ep = "update"
        /\ IF q.id \notin DOMAIN users
           THEN /\ reqs' = [reqs EXCEPT ![s] = Respond(q, q.ran, NotFound(q.id))]
                /\ UNCHANGED <<users, plain>>
           ELSE IF Collides(users, q.id, doc)
           THEN /\ reqs' = [reqs EXCEPT ![s] = Respond(q, q.ran, ErrorHandler(DuplicateKeyError))]
                /\ UNCHANGED <<users, plain>>
           ELSE /\ users' = [users EXCEPT ![q.id] = doc]
                /\ plain' = IF q.doc.password = AbsentPw THEN plain
                            ELSE [plain EXCEPT ![q.id] = q.doc.password]
                /\ reqs' = [reqs EXCEPT ![s] = Respond(q, q.ran,
                        Json(200, [success |-> TRUE, data |-> Selected(q.id, doc)]))]
        /\ UNCHANGED <<limits, probe, freed, failure, enumAllowsNull, env, now, nextId, issued>>

\* (mutant) a delete that answers 200 and leaves the record in the collection
DeleteUserKeepsRecord(s) ==
    LET q == reqs[s]
    IN  /\ Settled
        /\ q.pc = "db" /\ q.ep = "delete"
        /\ reqs' = [reqs EXCEPT ![s] = Respond(q, q.ran,
                IF q.id \notin DOMAIN users THEN NotFound(q.id)
                ELSE Json(200, [success |-> TRUE, data |-> EmptyObject]))]
        /\ UNCHANGED <<limits, probe, freed, failure, enumAllowsNull, env, now, users, nextId, issued, plain>>

\* deleteUser, lines 195-211: User.findByIdAndDelete completes
DeleteUserDb(s) ==
    LET q == reqs[s]
    IN  /\ Settled
        /\ q.pc = "db" /\ q.ep = "delete"
        /\ IF q.id \notin DOMAIN users
           THEN /\ reqs' = [reqs EXCEPT ![s] = Respond(q, q.ran, NotFound(q.id))]
                /\ UNCHANGED <<users, plain, freed>>
           ELSE /\ users' = [i \in DOMAIN users \ {q.id} |-> users[i]]
                /\ plain' = [i \in DOMAIN plain \ {q.id} |-> plain[i]]
                /\ freed' = freed \cup {<<users[q.id].username, users[q.id].email>>}
                /\ reqs' = [reqs EXCEPT ![s] = Respond(q, q.ran,
                        Json(200, [success |-> TRUE, data |-> EmptyObject]))]
        /\ UNCHANGED <<limits, probe, failure, enumAllowsNull, env, now, nextId, issued>>

\* parseInt(v) || d for the query strings used: NaN and 0 are falsy; parseInt
\* reads a sign and the leading digits, and gives NaN when there are none
DecimalValue == [v \in {"0", "1", "2", "3", "-1", "-2"} |->
                    CASE v = "0" -> 0 [] v = "1" -> 1 [] v = "2" -> 2 [] v = "3" -> 3
                      [] v = "-1" -> 0 - 1 [] v = "-2" -> 0 - 2]
ParseIntOr(v, d) ==
    IF v \in DOMAIN DecimalValue /\ DecimalValue[v] # 0 THEN DecimalValue[v] ELSE d

\* Math.ceil(a / b) for b # 0 (the integer of a negative quotient, -0
\* included, is sent as 0 or as a negative number)
CeilDiv(a, b) == IF b > 0 THEN (a + b - 1) \div b ELSE 0 - (a \div (0 - b))

\* the orders in which a query may return the documents ids
Orders(ids) == {o \in [1..Cardinality(ids) -> ids] : \A i, j \in DOMAIN o : o[i] = o[j] => i = j}

\* .select(select), lines 54-61: without fields the schema excludes password;
\* an inclusive selection returns _id and exactly the paths it names
Project(id, doc, fields) ==
    IF fields = NoFields THEN Selected(id, doc)
    ELSE LET full == Saved(id, doc)
             names == {fields[i] : i \in DOMAIN fields} \cap DOMAIN full
         IN  [f \in names \cup {"id"} |-> full[f]]

\* getUsers, lines 16-33: User.countDocuments(queryObj) completes
GetUsersCount(s) ==
    LET q == reqs[s]
    IN  /\ Settled
        /\ q.pc = "db" /\ q.ep = "list"
        /\ reqs' = [reqs EXCEPT ![s] = [Await(q, "find", q.ran) EXCEPT
                                            !.total = Cardinality(DOMAIN users)]]
        /\ UNCHANGED <<limits, probe, freed, failure, enumAllowsNull, env, now, users, nextId, issued, plain>>

\* the server refuses a find with a negative skip
SkipError ==
    [name |-> "MongoServerError", code |-> 2, status |-> 0,
     message |-> <<"Skip value must be non-negative">>, errors |-> NoErrors]

\* getUsers, lines 29-96: User.find(queryObj).select().sort().skip().limit()
\* completes, the documents coming in the order found; the driver sends the
\* absolute value of a negative limit
GetUsersFind(s, found) ==
    LET q == reqs[s]
        page == ParseIntOr(q.q.page, 1)
        limit == ParseIntOr(q.q.limit, 10)
        startIndex == (page - 1) * limit
        endIndex == page * limit
        batch == IF limit < 0 THEN 0 - limit ELSE limit
        last == IF startIndex + batch < Len(found) THEN startIndex + batch ELSE Len(found)
        data == [i \in 1..(IF last > startIndex THEN last - startIndex ELSE 0) |->
                    Project(found[startIndex + i], users[found[startIndex + i]], q.q.fields)]
        keys == (IF endIndex < q.total THEN {"next"} ELSE {})
                    \cup (IF startIndex > 0 THEN {"prev"} ELSE {})
        pagination == [k \in keys |->
                          [page |-> IF k = "next" THEN page + 1 ELSE page - 1, limit |-> limit]]
    IN  /\ Settled
        /\ q.pc = "find" /\ q.ep = "list"
        /\ found \in Orders(DOMAIN users)
        /\ reqs' = [reqs EXCEPT ![s] = Respond(q, q.ran,
                IF startIndex < 0 THEN ErrorHandler(SkipError)
                ELSE Json(200, [success |-> TRUE, count |-> Len(data),
                                pagination |-> pagination,
                                totalPages |-> CeilDiv(q.total, limit), currentPage |-> page,
                                data |-> data]))]
        /\ UNCHANGED <<limits, probe, freed, failure, enumAllowsNull, env, now, users, nextId, issued, plain>>

\* requestTimeout, error.ts 291-298: the timer of a request in flight fires
\* (an await may last longer than the 30 seconds) and, no response being
\* sent yet, sends 408; the handler is left as it is
TimeoutFires(s) ==
    LET q == reqs[s]
    IN  /\ Settled
        /\ q.pc \notin {"idle", "done"}
        /\ q.sent = NoRes
        /\ reqs' = [reqs EXCEPT ![s] = [q EXCEPT !.sent = RequestTimedOut]]
        /\ UNCHANGED <<limits, probe, freed, failure, enumAllowsNull, env, now, users, nextId, issued, plain>>

\* the clock advances
Tick ==
    /\ Settled
    /\ now < MaxTime
    /\ now' = now + 1
    /\ UNCHANGED <<limits, probe, freed, failure, enumAllowsNull, env, users, nextId, issued, plain, reqs>>

(***************************************************************************)
(* Initial state: the process has started, the collection is empty         *)
(***************************************************************************)
\* (a specification whose requests carry no null starts with one Mongoose:
\* its validators never meet a null)
NoFailure == [err |-> PlainError(<<>>), res |-> NoRes]

InitWith(slots, nullable) ==
    /\ limits = NoLimits
    /\ probe = NoProbe
    /\ freed = {}
    /\ failure = NoFailure
    /\ enumAllowsNull \in nullable
    /\ env \in {[JWT_SECRET |-> k, API_KEYS |-> NoApiKey] : k \in {Secret, Absent}}
    /\ now = 0
    /\ users = <<>>
    /\ nextId = 1
    /\ issued = {}
    /\ plain = <<>>
    /\ reqs = [s \in slots |-> Idle]

Body(username, email, role, password) ==
    [username |-> username, email |-> email, role |-> role, password |-> password]

(***************************************************************************)
(* Spec: the authentication and authorization pipeline.  One request at a  *)
(* time; two identities with a fixed password; every kind of header.       *)
(***************************************************************************)
GatePassword == Str("secret1")
GateBodies ==
    {Body(n[1], n[2], role, GatePassword) :
        n \in {<<"u1", "a@x.com">>, <<"u2", "b@x.com">>},
        role \in {Absent, "administrator", "employee"}}
GateLogins == {Body(Absent, "a@x.com", Absent, GatePassword),
               Body("u2", Absent, Absent, GatePassword)}
GateUpdates == {Body(Absent, Absent, role, AbsentPw) : role \in {"administrator", "client"}}

\* a token signed with a key that is not the server's
Forged(token) == [token EXCEPT !.key = "attacker"]
BearerX == Bearer \o <<"X">>

\* the headers that present the token t, well or badly
HeadersWith(t) ==
    {<<Bearer, t>>, <<BearerX, t>>, <<Basic, t>>, <<LowerBearer, t>>, <<Bearer, Forged(t)>>,
     <<Bearer, EmptyWord, t>>}
\* the headers that present no token of the server
HeadersWithout == {NoHeader, <<Bearer>>, <<Bearer, Garbage>>}

GateArgs(ep) ==
    CASE ep \in {"me", "list"} -> {Input(ep, NoHeader, NoBody, BadId, NoQuery)}
      [] ep \in {"get", "delete"} -> {Input(ep, NoHeader, NoBody, id, NoQuery) : id \in 1..MaxIds}
      [] ep = "update" ->
            {Input(ep, NoHeader, b, id, NoQuery) : b \in GateUpdates, id \in 1..MaxIds}
      [] ep = "create" -> {Input(ep, NoHeader, b, BadId, NoQuery) : b \in GateBodies}

\* one request of each protected route
GateProbes ==
    {Input(ep, NoHeader, IF ep \in {"create", "update"} THEN Body("u2", "b@x.com", "client", GatePassword)
                         ELSE NoBody,
           IF ep \in {"get", "update", "delete"} THEN 1 ELSE BadId, NoQuery) : ep \in ProtectedRoutes}

\* every request of a protected route with every token held, and one request
\* of each protected route with every other header
GateRequests ==
    {Input("register", NoHeader, b, BadId, NoQuery) : b \in GateBodies}
    \cup {Input("login", NoHeader, b, BadId, NoQuery) : b \in GateLogins}
    \cup {Input("logout", NoHeader, NoBody, BadId, NoQuery)}
    \cup {[r EXCEPT !.hdr = <<Bearer, t>>] :
            r \in UNION {GateArgs(ep) : ep \in ProtectedRoutes}, t \in issued}
    \cup {[r EXCEPT !.hdr = h] :
            r \in GateProbes, h \in HeadersWithout \cup UNION {HeadersWith(t) : t \in issued}}

Init == InitWith({1}, {FALSE})

Next ==
    \/ \E s \in DOMAIN reqs, r \in GateRequests : Receive(s, r)
    \/ \E s \in DOMAIN reqs : ProtectFindById(s)
    \/ \E s \in DOMAIN reqs : HashPassword(s, "s1")
    \/ \E s \in DOMAIN reqs : RegisterSave(s)
    \/ \E s \in DOMAIN reqs : CreateUserSave(s)
    \/ \E s \in DOMAIN reqs : LoginFindOne(s)
    \/ \E s \in DOMAIN reqs : GetMeFindById(s)
    \/ \E s \in DOMAIN reqs : GetUserFindById(s)
    \/ \E s \in DOMAIN reqs : GetUsersCount(s)
    \/ \E s \in DOMAIN reqs, found \in Orders(DOMAIN users) : GetUsersFind(s, found)
    \/ \E s \in DOMAIN reqs : UpdateUserDb(s)
    \/ \E s \in DOMAIN reqs : DeleteUserDb(s)
    \/ \E s \in DOMAIN reqs : Collect(s)
    \/ Tick

Spec == Init /\ [][Next]_vars

(***************************************************************************)
(* Properties of the pipeline (Spec)                                       *)
(***************************************************************************)
\* the header of request q is absent, is no Bearer header, carries no token,
\* or carries a token that is malformed, signed with another key or expired
\* when the request arrives
Unverifiable(q) ==
    \/ q.hdr = NoHeader
    \/ ~StartsWith(q.hdr[1], Bearer)
    \/ Len(q.hdr) < 2
    \/ q.hdr[2] = EmptyWord
    \/ q.hdr[2].key # Secret
    \/ q.at >= q.hdr[2].exp

C2_DeletedIdentityRejected ==
    \A s \in DOMAIN reqs :
        LET q == reqs[s]
        IN  q.pc # "idle" /\ q.ep \in ProtectedRoutes /\ ~Unverifiable(q)
                /\ env.JWT_SECRET = Secret /\ q.gone
                => /\ q.pc \in {"protect", "done"}
                   /\ q.ran = <<"protect">>
                   /\ q.pc = "done" => q.res = UserNotFound

\* C2 witness: such a request has been answered
C2_Witness ==
    \E s \in DOMAIN reqs :
        LET q == reqs[s]
        IN  /\ q.pc = "done" /\ q.ep \in ProtectedRoutes /\ ~Unverifiable(q)
            /\ q.hdr[2] \in issued /\ q.gone /\ q.hdr[2].sub \notin DOMAIN users
            /\ q.res = UserNotFound

\* C3: on a route of the users router the stages run in the order protect,
\* authorize, handler: authorize runs only with the identity protect
\* attached, the handler (and every await and response of it) only after
\* authorize has admitted that identity, and a request a gate has answered
\* is over, with 401 or 403.
C3_GatesBeforeHandler ==
    \A s \in DOMAIN reqs :
        LET q == reqs[s]
            full == <<"protect", "authorize", q.ep>>
        IN  q.pc # "idle" /\ q.ep \in UsersRoutes
                => /\ Len(q.ran) \in 1..3 /\ q.ran = SubSeq(full, 1, Len(q.ran))
                   /\ Len(q.ran) >= 2 => q.user # NoUser /\ q.sub = q.user.id
                   /\ Len(q.ran) = 3 => q.user.role = "administrator"
                   /\ q.pc \in {"save", "db", "find"} => Len(q.ran) = 3
                   /\ q.pc = "protect" => Len(q.ran) = 1 /\ q.user = NoUser
                   /\ q.pc = "done" /\ Len(q.ran) = 1 => q.res.status = 401
                   /\ q.pc = "done" /\ Len(q.ran) = 2 => q.res.status = 403
                   /\ q.pc = "done" /\ q.res.status \notin {401, 403} => Len(q.ran) = 3

\* C3 witness: a users handler has answered after both gates
C3_Witness ==
    \E s \in DOMAIN reqs :
        LET q == reqs[s]
        IN  /\ q.pc = "done" /\ q.ep = "delete"
            /\ q.ran = <<"protect", "authorize", "delete">>
            /\ q.res.status = 200

\* C4: on every route of the users router an authenticated identity whose
\* role is not administrator is answered 403 with a message naming its role
\* and the handler does not run; an administrator is admitted; no handler
\* of the router runs for an identity that is not an administrator.
C4_OnlyAdministrators ==
    \A s \in DOMAIN reqs :
        LET q == reqs[s]
        IN  q.pc # "idle" /\ q.ep \in UsersRoutes /\ q.user # NoUser
                => /\ q.user.role # "administrator"
                        => q.pc = "done" /\ q.res = Forbidden(q.user.role)
                           /\ q.ran = <<"protect", "authorize">>
                   /\ q.user.role = "administrator"
                        => q.ran = <<"protect", "authorize", q.ep>>

\* C4 witness: an employee has been answered 403 on a route of the router
C4_Witness ==
    \E s \in DOMAIN reqs :
        LET q == reqs[s]
        IN  /\ q.pc = "done" /\ q.ep \in UsersRoutes
            /\ q.user # NoUser /\ q.user.role = "employee"
            /\ q.res = Forbidden("employee")

\* the request in slot q presents, as a Bearer token, the token t that the
\* server signed
Presents(q, t) ==
    q.hdr = <<Bearer, t>> /\ t.key = Secret /\ env.JWT_SECRET = Secret

\* protect has refused the request of slot q
RefusedByVerify(q) == q.pc = "done" /\ q.res = Unauthorized /\ q.ran = <<"protect">>

\* C14: the expiration of a token is its issuance time plus the configured
\* duration and does not move: at every time before it verify and the gate
\* accept the token, however often it was used, and at every time after it
\* they reject it.
C14_ExpiryFixedAtIssuance ==
    /\ \A t \in issued :
          /\ t.exp = t.iat + JwtExpire
          /\ now < t.iat + JwtExpire => ~JwtVerify(t, Secret, now).threw
          /\ now > t.iat + JwtExpire => JwtVerify(t, Secret, now).threw
    /\ \A s \in DOMAIN reqs : \A t \in issued :
          LET q == reqs[s]
          IN  q.pc # "idle" /\ q.ep \in ProtectedRoutes /\ Presents(q, t)
                  => /\ q.at < t.iat + JwtExpire => ~RefusedByVerify(q) /\ q.sub = t.sub
                     /\ q.at > t.iat + JwtExpire => RefusedByVerify(q)

\* C14 witness: a token of a stored identity is presented after its
\* expiration and refused
C14_Witness ==
    \E s \in DOMAIN reqs : \E t \in issued :
        LET q == reqs[s]
        IN  /\ q.ep \in ProtectedRoutes /\ Presents(q, t)
            /\ q.at > t.iat + JwtExpire /\ RefusedByVerify(q)
            /\ t.sub \in DOMAIN users

\* a logout arrives in this step (the handler runs to its end in it)
LogoutStep == \E s \in DOMAIN reqs : reqs[s].pc = "idle" /\ reqs'[s].ep = "logout"

\* verify accepts the token t with the secret of e at time n
Accepted(t, e, n) == ~JwtVerify(t, e.JWT_SECRET, n).threw

C16_NoRequestWithoutSecret ==
    \A s \in DOMAIN reqs : reqs[s].pc # "idle" => env.JWT_SECRET # Absent

(***************************************************************************)
(* SpecCred: the credentials.  One request at a time; two identities, the  *)
(* passwords a JSON body can carry (strings, a number, none), both salts,  *)
(* logins with every candidate, and the administrator's routes.            *)
(***************************************************************************)
CredPasswords == {Str("secret1"), Str("secret2"), Num("123456"), Str("abc"), AbsentPw}
CredBodies ==
    {Body("u1", "a@x.com", "administrator", p) : p \in CredPasswords}
    \cup {Body("u2", "b@x.com", Absent, p) : p \in CredPasswords}

\* the passwords a login tries: none, the empty string, strings, a number
\* and the stored password strings themselves
CredCandidates ==
    {AbsentPw, Str(""), Str("secret1"), Str("secret2"), Str("123456"), Num("123456")}
    \cup {users[i].password : i \in DOMAIN users}
CredIdentifiers ==
    {<<Absent, "a@x.com">>, <<Absent, "c@x.com">>, <<"u2", Absent>>, <<Absent, Absent>>,
     <<"", "">>}
CredLogins == {Body(n[1], n[2], Absent, p) : n \in CredIdentifiers, p \in CredCandidates}
CredUpdates ==
    {Body(Absent, Absent, Absent, p) : p \in {Str("secret2"), Num("123456"), Str("abc")}}
CredQueries ==
    {[NoQuery EXCEPT !.fields = f] : f \in {NoFields, <<"username", "email">>, <<"password">>}}

CredArgs ==
    {Input("me", NoHeader, NoBody, BadId, NoQuery)}
    \cup {Input("list", NoHeader, NoBody, BadId, query) : query \in CredQueries}
    \cup {Input(ep, NoHeader, NoBody, id, NoQuery) : ep \in {"get", "delete"}, id \in 1..MaxIds}
    \cup {Input("update", NoHeader, b, id, NoQuery) : b \in CredUpdates, id \in 1..MaxIds}
    \cup {Input("create", NoHeader, b, BadId, NoQuery) : b \in CredBodies}

CredRequests ==
    {Input("register", NoHeader, b, BadId, NoQuery) : b \in CredBodies}
    \cup {Input("login", NoHeader, b, BadId, NoQuery) : b \in CredLogins}
    \cup {[r EXCEPT !.hdr = <<Bearer, t>>] : r \in CredArgs, t \in issued}

InitCred == InitWith({1}, {FALSE})

NextCred ==
    \/ \E s \in DOMAIN reqs, r \in CredRequests : Receive(s, r)
    \/ \E s \in DOMAIN reqs : ProtectFindById(s)
    \/ \E s \in DOMAIN reqs, salt \in Salts : HashPassword(s, salt)
    \/ \E s \in DOMAIN reqs : RegisterSave(s)
    \/ \E s \in DOMAIN reqs : CreateUserSave(s)
    \/ \E s \in DOMAIN reqs : LoginFindOne(s)
    \/ \E s \in DOMAIN reqs : GetMeFindById(s)
    \/ \E s \in DOMAIN reqs : GetUserFindById(s)
    \/ \E s \in DOMAIN reqs : GetUsersCount(s)
    \/ \E s \in DOMAIN reqs, found \in Orders(DOMAIN users) : GetUsersFind(s, found)
    \/ \E s \in DOMAIN reqs : UpdateUserDb(s)
    \/ \E s \in DOMAIN reqs : DeleteUserDb(s)
    \/ \E s \in DOMAIN reqs : Collect(s)

SpecCred == InitCred /\ [][NextCred]_vars

(***************************************************************************)
(* Properties of the credentials (SpecCred)                                *)
(***************************************************************************)
\* the identities the identifier of a login body names: the email when one
\* is given, the username otherwise
Identified(body) ==
    {i \in DOMAIN users :
        IF ~Falsy(body.email) THEN users[i].email = body.email
        ELSE users[i].username = body.username}

\* the login body carries an identifier and a password
Complete(body) ==
    ~(Falsy(body.email) /\ Falsy(body.username)) /\ ~FalsyPw(body.password)

\* C5: a login whose identifier matches no identity and a login whose
\* identifier matches an identity but whose password is not the one last set
\* for it get the same response, 401 'Invalid credentials'.
C5_UnknownAndWrongAnsweredAlike ==
    \A s \in DOMAIN reqs :
        LET q == reqs[s]
        IN  q.ep = "login" /\ q.pc = "done" /\ Complete(q.body)
                /\ (\A i \in Identified(q.body) : CastString(q.body.password) # plain[i])
                => q.res = InvalidCredentials

\* C6: a login without email and username, or without password (missing or
\* empty), is answered 400 in the step in which it arrives: no identity is
\* looked up and no token is issued.
C6_IncompleteLoginRejected ==
    \A s \in DOMAIN reqs :
        LET q == reqs[s]
        IN  q.ep = "login" /\ q.pc # "idle" /\ ~Complete(q.body)
                => q.pc = "done" /\ q.res = MissingCredentials /\ q.ran = <<"login">>

\* C6 witness: a login that names an existing identity and carries an empty
\* password has been answered 400
C6_Witness ==
    \E s \in DOMAIN reqs :
        LET q == reqs[s]
        IN  /\ q.ep = "login" /\ q.pc = "done"
            /\ Identified(q.body) # {} /\ q.body.password = Str("")
            /\ q.res.status = 400 /\ "token" \notin DOMAIN q.res.body

\* the strings a caller may hand to matchPassword
Candidates ==
    {Str("secret1"), Str("secret2"), Str("123456"), Str("abc"), Str("")}
    \cup {users[i].password : i \in DOMAIN users}

\* C7: after any sequence of register, create and update, matchPassword of
\* an identity is true for the string p if and only if p is the password
\* last supplied for that identity, and false for every other string, the
\* stored one included.
C7_MatchIffLastPassword ==
    \A i \in DOMAIN users : \A p \in Candidates :
        MatchPassword(users[i], p) = [threw |-> FALSE, match |-> (p = plain[i])]

\* C8: the stored password of every identity is a salted hash and never the
\* password a client supplied for it.
C8_StoredPasswordIsHash ==
    \A i \in DOMAIN users :
        users[i].password[1] = "hash" /\ users[i].password # plain[i]

\* the serialized identity d has a password field
HasPassword(d) == "password" \in DOMAIN d

\* C9: no response that returns identity data (GET /auth/me, GET /users with
\* any fields, GET /users/:id, POST /users, PUT /users/:id) has a password
\* field in a serialized identity.
C9_NoPasswordInResponse ==
    \A s \in DOMAIN reqs :
        LET q == reqs[s]
        IN  q.pc = "done" /\ q.res.status \in {200, 201} /\ "data" \in DOMAIN q.res.body
                => IF q.ep = "list"
                   THEN \A i \in DOMAIN q.res.body.data : ~HasPassword(q.res.body.data[i])
                   ELSE ~HasPassword(q.res.body.data)

(***************************************************************************)
(* SpecConc: two requests in flight.  The administrator (identity 1)       *)
(* creates and renames identities while others register, with usernames    *)
(* and emails that collide.                                                *)
(***************************************************************************)
ConcBodies ==
    {Body(u, e, "administrator", GatePassword) : u \in {"u1", "u2"}, e \in {"a@x.com", "b@x.com"}}
ConcUpdates ==
    {Body(u, Absent, Absent, AbsentPw) : u \in {"u2", "u3"}}
    \cup {Body(Absent, "b@x.com", Absent, AbsentPw)}

ConcRequests ==
    {Input("register", NoHeader, b, BadId, NoQuery) : b \in ConcBodies}
    \cup {Input("create", <<Bearer, t>>, b, BadId, NoQuery) :
            b \in ConcBodies, t \in {k \in issued : k.sub = 1}}
    \cup {Input("update", <<Bearer, t>>, b, id, NoQuery) :
            b \in ConcUpdates, id \in 1..MaxIds, t \in {k \in issued : k.sub = 1}}

InitConc == InitWith({1, 2}, {FALSE})

NextConc ==
    \/ \E s \in DOMAIN reqs, r \in ConcRequests : Receive(s, r)
    \/ \E s \in DOMAIN reqs : ProtectFindById(s)
    \/ \E s \in DOMAIN reqs : HashPassword(s, "s1")
    \/ \E s \in DOMAIN reqs : RegisterSave(s)
    \/ \E s \in DOMAIN reqs : CreateUserSave(s)
    \/ \E s \in DOMAIN reqs : UpdateUserDb(s)
    \/ \E s \in DOMAIN reqs : Collect(s)

SpecConc == InitConc /\ [][NextConc]_vars

(***************************************************************************)
(* Properties of the concurrent writes (SpecConc)                          *)
(***************************************************************************)
\* no two identities share a username or an email
UniqueIdentities ==
    \A i, j \in DOMAIN users :
        i # j => users[i].username # users[j].username /\ users[i].email # users[j].email

\* the documents a and b have the same username or the same email
Clash(a, b) == a.username = b.username \/ a.email = b.email

\* the slot holds a creation that has not reached the store yet
Creating(q) == q.ep \in {"register", "create"} /\ q.pc \in {"save", "db"}

\* the insert of the creation in slot s completes in this step: a document
\* that clashes with a stored one is refused with 400 and the store is left
\* as it was; otherwise it is persisted, and from then on the store refuses
\* every creation in flight that clashes with it
InsertArbitrated(s) ==
    LET q == reqs[s]
    IN  Creating(q) /\ q.pc = "db" /\ reqs'[s].pc = "done"
            => IF \E i \in DOMAIN users : Clash(users[i], q.doc)
               THEN users' = users /\ reqs'[s].res.status = 400
               ELSE /\ DOMAIN users' = DOMAIN users \cup {nextId}
                    /\ users'[nextId] = q.doc
                    /\ \A i \in DOMAIN users : users'[i] = users[i]
                    /\ \A s2 \in DOMAIN reqs \ {s} :
                            Creating(reqs[s2]) /\ Clash(reqs[s2].doc, q.doc)
                                => /\ reqs'[s2] = reqs[s2]
                                   /\ \E i \in DOMAIN users' : Clash(users'[i], reqs[s2].doc)

\* C10: under every interleaving of register, create and update requests no
\* two identities of the store share a username or an email, and of two
\* creations in flight that collide exactly one is persisted: the first
\* insert is stored and the store then refuses the other.
C10_UniqueUnderConcurrency ==
    []UniqueIdentities /\ [][\A s \in DOMAIN reqs : InsertArbitrated(s)]_vars

\* C10 witness: a creation has been persisted while a creation that clashes
\* with it is in flight
C10_Witness ==
    \E s, s2 \in DOMAIN reqs :
        /\ s # s2
        /\ reqs[s].ep \in {"register", "create"} /\ reqs[s].pc = "done"
        /\ reqs[s].res.status = 201
        /\ Creating(reqs[s2]) /\ reqs[s2].pc = "db"
        /\ Clash(reqs[s].doc, reqs[s2].doc)
        /\ \E i \in DOMAIN users : users[i] = reqs[s].doc

\* C11: a registration whose username is exactly the username of a stored
\* identity with another email is answered 400 without a token, and the
\* store does not hold the identity it submitted.
C11_DuplicateUsernameRejected ==
    \A s \in DOMAIN reqs :
        LET q == reqs[s]
        IN  q.ep = "register" /\ q.pc = "done"
                /\ (\E i \in DOMAIN users : /\ users[i].username = q.body.username
                                            /\ users[i].email # q.body.email)
                => /\ q.res.status = 400
                   /\ q.res.body.success = FALSE
                   /\ "token" \notin DOMAIN q.res.body
                   /\ ~\E i \in DOMAIN users : /\ users[i].username = q.body.username
                                               /\ users[i].email = q.body.email

\* C11 witness: a registration with a stored username and a fresh email has
\* been answered 400 'Duplicate field value entered'
C11_Witness ==
    \E s \in DOMAIN reqs :
        LET q == reqs[s]
        IN  /\ q.ep = "register" /\ q.pc = "done"
            /\ \E i \in DOMAIN users : /\ users[i].username = q.body.username
                                       /\ users[i].email # q.body.email
            /\ \A i \in DOMAIN users : users[i].email # q.body.email
            /\ q.res = Json(400, [success |-> FALSE,
                                  error |-> <<"Duplicate field value entered">>])

(***************************************************************************)
(* SpecReg: the creation and the update of identities.  One request at a   *)
(* time; usernames with and without white space around them; roles inside  *)
(* and outside the enumeration, absent and null; either Mongoose.          *)
(***************************************************************************)
RegRoles == {Absent, Null, "administrator", "superuser", ""}
RegBodies ==
    {Body(n[1], n[2], role, GatePassword) :
        n \in {<<"u1", "a@x.com">>, <<" u1 ", "a@x.com">>, <<"u2", "b@x.com">>},
        role \in RegRoles}
RegUpdates ==
    {Body(Absent, Absent, role, AbsentPw) : role \in {"client", "superuser", Null}}

RegRequests ==
    {Input("register", NoHeader, b, BadId, NoQuery) : b \in RegBodies}
    \cup {Input("create", <<Bearer, t>>, b, BadId, NoQuery) : b \in RegBodies, t \in issued}
    \cup {Input("update", <<Bearer, t>>, b, id, NoQuery) :
            b \in RegUpdates, id \in 1..MaxIds, t \in issued}

InitReg == InitWith({1}, BOOLEAN)

NextReg ==
    \/ \E s \in DOMAIN reqs, r \in RegRequests : Receive(s, r)
    \/ \E s \in DOMAIN reqs : ProtectFindById(s)
    \/ \E s \in DOMAIN reqs : HashPassword(s, "s1")
    \/ \E s \in DOMAIN reqs : RegisterSave(s)
    \/ \E s \in DOMAIN reqs : CreateUserSave(s)
    \/ \E s \in DOMAIN reqs : UpdateUserDb(s)
    \/ \E s \in DOMAIN reqs : Collect(s)

SpecReg == InitReg /\ [][NextReg]_vars

(***************************************************************************)
(* Properties of creation and update (SpecReg)                             *)
(***************************************************************************)
\* the handler of the request in slot q has run
Handled(q) == q.ran # <<>> /\ q.ran[Len(q.ran)] = q.ep

\* C12: the role of every stored identity is administrator, client or
\* employee; a creation without a role stores client; a creation or update
\* that supplies any other role is answered 400 and stores nothing.
C12_RoleAlwaysEnumerated ==
    /\ \A i \in DOMAIN users : users[i].role \in Roles
    /\ \A s \in DOMAIN reqs :
        LET q == reqs[s]
        IN  q.pc = "done" /\ q.ep \in {"register", "create", "update"} /\ Handled(q)
                => /\ q.body.role \notin Roles \cup {Absent} => q.res.status = 400
                   /\ q.ep # "update" /\ q.body.role = Absent /\ q.res.status = 201
                        => \E i \in DOMAIN users :
                                /\ users[i].username = Trim(q.body.username)
                                /\ users[i].role = "client"

\* the registration in slot q is valid: its document passes the validators
\* and its username and email were free when it arrived
ValidRegistration(q) ==
    q.ep = "register" /\ ValidateDocument(NewDocument(q.body)) = <<>> /\ q.fresh

\* C13: every valid registration is answered 201 {success: true, token}, and
\* the token verifies to a subject that findById resolves to an identity
\* with exactly the username and the email submitted.
C13_RegisterTokenRoundTrip ==
    \A s \in DOMAIN reqs :
        LET q == reqs[s]
        IN  q.pc = "done" /\ ValidRegistration(q)
                => /\ q.res.status = 201
                   /\ q.res.body.success
                   /\ LET decoded == JwtVerify(q.res.body.token, Secret, now)
                      IN  /\ ~decoded.threw
                          /\ decoded.id \in DOMAIN users
                          /\ users[decoded.id].username = q.body.username
                          /\ users[decoded.id].email = q.body.email

(***************************************************************************)
(* SpecTimeout: the request deadline.  One request at a time on the public *)
(* routes; the timer of requestTimeout may fire at any await.              *)
(***************************************************************************)
TimeoutRequests ==
    {Input("register", NoHeader, b, BadId, NoQuery) : b \in GateBodies}
    \cup {Input("login", NoHeader, b, BadId, NoQuery) : b \in GateLogins}

InitTimeout == InitWith({1}, {FALSE})

NextTimeout ==
    \/ \E s \in DOMAIN reqs, r \in TimeoutRequests : Receive(s, r)
    \/ \E s \in DOMAIN reqs : TimeoutFires(s)
    \/ \E s \in DOMAIN reqs : HashPassword(s, "s1")
    \/ \E s \in DOMAIN reqs : RegisterSave(s)
    \/ \E s \in DOMAIN reqs : LoginFindOne(s)
    \/ \E s \in DOMAIN reqs : Collect(s)

SpecTimeout == InitTimeout /\ [][NextTimeout]_vars

\* C17: a request that is not answered within the deadline is answered 408
\* 'Request timeout' and its handler is aborted: it gets that one response,
\* and after the 408 its handler changes nothing in the store.
C17_TimeoutAbortsHandler ==
    /\ [](\A s \in DOMAIN reqs :
            reqs[s].pc = "done" /\ reqs[s].sent # NoRes => reqs[s].res = RequestTimedOut)
    /\ [][(\E s \in DOMAIN reqs : reqs[s].sent # NoRes) => users' = users]_vars

(***************************************************************************)
(* SpecMe: the current identity.  Two requests in flight: an identity      *)
(* asks for itself while the administrator deletes identities.             *)
(***************************************************************************)
MeBodies ==
    {Body("u1", "a@x.com", "administrator", GatePassword),
     Body("u2", "b@x.com", Absent, GatePassword)}

MeRequests ==
    {Input("register", NoHeader, b, BadId, NoQuery) : b \in MeBodies}
    \cup {Input("me", h, NoBody, BadId, NoQuery) :
            h \in {NoHeader} \cup {<<Bearer, t>> : t \in issued}}
    \cup {Input("delete", <<Bearer, t>>, NoBody, id, NoQuery) :
            id \in 1..MaxIds, t \in issued}

InitMe == InitWith({1, 2}, {FALSE})

NextMe ==
    \/ \E s \in DOMAIN reqs, r \in MeRequests : Receive(s, r)
    \/ \E s \in DOMAIN reqs : ProtectFindById(s)
    \/ \E s \in DOMAIN reqs : HashPassword(s, "s1")
    \/ \E s \in DOMAIN reqs : RegisterSave(s)
    \/ \E s \in DOMAIN reqs : GetMeFindById(s)
    \/ \E s \in DOMAIN reqs : DeleteUserDb(s)
    \/ \E s \in DOMAIN reqs : Collect(s)

SpecMe == InitMe /\ [][NextMe]_vars

\* C18: GET /auth/me answers 401 when the gate attached no identity, and
\* otherwise 200 with the record of the identity the gate attached, fetched
\* again by id; a 200 never carries an empty data, whatever the
\* administrator deletes meanwhile.
C18_MeCarriesAttachedIdentity ==
    \A s \in DOMAIN reqs :
        LET q == reqs[s]
        IN  (q.ep = "me" /\ q.pc = "done") =>
                /\ q.user = NoUser => q.res.status = 401
                /\ q.res.status = 200 =>
                        /\ q.res.body.data # NullDoc
                        /\ q.res.body.data.id = q.user.id

(***************************************************************************)
(* SpecErr: the error handler alone.  An error of any shape is passed to   *)
(* next(err), and errorHandler answers it.                                 *)
(***************************************************************************)
ErrNames == {"CastError", "ValidationError", "MongoServerError", "Error", "SyntaxError"}
ErrCodes == {0, 11000}
ErrStatuses == {0, 400, 413}
ErrMessages ==
    {<<"">>, <<"Illegal arguments: number, string">>,
     <<"Unexpected token } in JSON at position 5">>}
ErrFields ==
    {NoErrors, UsernameErrors(Absent), UsernameErrors(Absent) \o PasswordErrors(AbsentPw)}

Errors ==
    {[name |-> n, code |-> c, status |-> st, message |-> m, errors |-> f] :
        n \in ErrNames, c \in ErrCodes, st \in ErrStatuses, m \in ErrMessages, f \in ErrFields}

InitErr ==
    /\ limits = NoLimits
    /\ probe = NoProbe
    /\ freed = {}
    /\ failure \in {[err |-> e, res |-> NoRes] : e \in Errors}
    /\ enumAllowsNull = FALSE
    /\ env = [JWT_SECRET |-> Secret, API_KEYS |-> NoApiKey]
    /\ now = 0
    /\ users = <<>>
    /\ nextId = 1
    /\ issued = {}
    /\ plain = <<>>
    /\ reqs = [s \in {1} |-> Idle]

\* app.use(errorHandler): the error reaches the handler, which answers
HandleError ==
    /\ failure.res = NoRes
    /\ failure' = [failure EXCEPT !.res = ErrorHandler(failure.err)]
    /\ UNCHANGED <<limits, probe, freed, enumAllowsNull, env, now, users, nextId, issued, plain, reqs>>

NextErr == HandleError

SpecErr == InitErr /\ [][NextErr]_vars

(***************************************************************************)
(* Properties of the error handler (SpecErr)                               *)
(***************************************************************************)
IsCast(e) == e.name = "CastError"
IsDuplicateKey(e) == e.code = 11000
IsValidation(e) == e.name = "ValidationError" /\ e.errors # NoErrors
Uniform(r) == DOMAIN r.body = {"success", "error"} /\ r.body.success = FALSE

\* what the three known shapes give, the later check deciding
KnownShapesMapped(e, r) ==
    /\ IsValidation(e) => r.status = 400 /\ r.body.error = Join(e.errors)
    /\ IsDuplicateKey(e) /\ ~IsValidation(e) =>
            r.status = 400 /\ r.body.error = <<"Duplicate field value entered">>
    /\ IsCast(e) /\ ~IsDuplicateKey(e) /\ ~IsValidation(e) =>
            r.status = 404 /\ r.body.error = <<"Resource not found">>

NoKnownShape(e) == ~IsCast(e) /\ ~IsDuplicateKey(e) /\ ~IsValidation(e)

Unexpected(e) == NoKnownShape(e) /\ e.status = 0

\* C20: the body sent for an unexpected error is a fixed generic message: it
\* is the body any other unexpected error gets, whatever the messages of the
\* two errors.
C20_UnexpectedErrorBodyFixed ==
    failure.res # NoRes /\ Unexpected(failure.err) =>
        \A e \in Errors : Unexpected(e) => ErrorHandler(e).body = failure.res.body

(***************************************************************************)
(* SpecDel: the deletion of identities.  One request at a time; two        *)
(* administrators who delete, read, update and register again.             *)
(***************************************************************************)
DelBodies ==
    {Body("u1", "a@x.com", "administrator", GatePassword),
     Body("u2", "b@x.com", "administrator", GatePassword)}

DelRequests ==
    {Input("register", NoHeader, b, BadId, NoQuery) : b \in DelBodies}
    \cup {Input("login", NoHeader, b, BadId, NoQuery) : b \in GateLogins}
    \cup {Input(ep, <<Bearer, t>>, NoBody, id, NoQuery) :
            ep \in {"get", "delete"}, id \in {BadId} \cup 1..MaxIds, t \in issued}
    \cup {Input("update", <<Bearer, t>>, b, id, NoQuery) :
            b \in GateUpdates, id \in {BadId} \cup 1..MaxIds, t \in issued}

InitDel == InitWith({1}, {FALSE})

NextDel ==
    \/ \E s \in DOMAIN reqs, r \in DelRequests : Receive(s, r)
    \/ \E s \in DOMAIN reqs : ProtectFindById(s)
    \/ \E s \in DOMAIN reqs : HashPassword(s, "s1")
    \/ \E s \in DOMAIN reqs : RegisterSave(s)
    \/ \E s \in DOMAIN reqs : LoginFindOne(s)
    \/ \E s \in DOMAIN reqs : GetUserFindById(s)
    \/ \E s \in DOMAIN reqs : UpdateUserDb(s)
    \/ \E s \in DOMAIN reqs : DeleteUserDb(s)
    \/ \E s \in DOMAIN reqs : Collect(s)

SpecDel == InitDel /\ [][NextDel]_vars

(***************************************************************************)
(* Properties of the deletion (SpecDel)                                    *)
(***************************************************************************)
ByIdRoutes == {"get", "update", "delete"}
\* the ids of the deleted identities: an ObjectId is never assigned twice
DeletedIds == (1..(nextId - 1)) \ DOMAIN users
\* the query of the handler in slot s completes in this step
Completes(s) == reqs[s].pc = "db" /\ reqs'[s].pc = "done"
\* the identities login looks for with the body
Sought(body) ==
    IF ~Falsy(body.email) THEN {i \in DOMAIN users : users[i].email = body.email}
    ELSE {i \in DOMAIN users : users[i].username = body.username}

\* a get, update or delete of an id that matches no identity, deleted ones
\* included, answers 404 and changes nothing
MissingIdAnswered(s) ==
    Completes(s) /\ reqs[s].ep \in ByIdRoutes /\ reqs[s].id \notin DOMAIN users
        => reqs'[s].res = NotFound(reqs[s].id) /\ users' = users

\* a delete of a stored id answers 200 and removes that one record
DeleteRemovesOne(s) ==
    Completes(s) /\ reqs[s].ep = "delete" /\ reqs[s].id \in DOMAIN users
        => /\ reqs'[s].res.status = 200
           /\ DOMAIN users' = DOMAIN users \ {reqs[s].id}
           /\ \A i \in DOMAIN users' : users'[i] = users[i]

\* a login with an identifier no stored identity has answers 401
GoneLoginRefused(s) ==
    Completes(s) /\ reqs[s].ep = "login" /\ Sought(reqs[s].body) = {}
        => reqs'[s].res = InvalidCredentials

\* a registration whose username and email no stored identity has succeeds,
\* whether or not a deleted identity had them
FreedNamesRegistered(s) ==
    Completes(s) /\ reqs[s].ep = "register" /\ ~Collides(users, 0, reqs[s].doc)
            /\ env.JWT_SECRET = Secret
        => /\ reqs'[s].res.status = 201
           /\ \E i \in DOMAIN users' \ DOMAIN users :
                users'[i].username = reqs[s].doc.username

KeyPaths ==
    {<<"/">>, <<"/api/v1", "/health">>, <<"/api/v1", "/health", "z">>, <<"/api-docs">>,
     <<"/api-docs", "/swagger-ui.css">>, <<"/api/v1", "/auth", "/register">>,
     <<"/api/v1", "/auth", "/login">>, <<"/api/v1", "/auth", "/me">>,
     <<"/api/v1", "/auth", "/logout">>, <<"/api/v1", "/users">>,
     <<"/api/v1", "/users", "/1">>}
KeyHeaders == {NoApiKey, Str(<<>>), Str(<<"k1">>), Str(<<"k2">>), Str(<<"zz">>)}
KeyEnvs == {NoApiKey, Str(<<>>), Str(<<"k1">>), Str(<<"k1", ",", "k2">>)}

InitKey ==
    /\ probe \in {[path |-> p, ip |-> "ip1", key |-> k, out |-> "pending", res |-> NoRes] :
                    p \in KeyPaths, k \in KeyHeaders}
    /\ env \in {[JWT_SECRET |-> Secret, API_KEYS |-> k] : k \in KeyEnvs}
    /\ limits = NoLimits
    /\ freed = {}
    /\ failure = NoFailure
    /\ enumAllowsNull = FALSE
    /\ now = 0
    /\ users = <<>>
    /\ nextId = 1
    /\ issued = {}
    /\ plain = <<>>
    /\ reqs = [s \in {1} |-> Idle]

\* app.use(apiKeyAuth): the middleware answers or calls next
RunApiKeyAuth ==
    /\ probe.out = "pending"
    /\ LET res == ApiKeyAuth(env, probe.path, probe.key)
       IN  probe' = [probe EXCEPT !.out = IF res = NoRes THEN "next" ELSE "sent",
                                  !.res = res]
    /\ UNCHANGED <<limits, freed, failure, enumAllowsNull, env, now, users, nextId, issued, plain, reqs>>

NextKey == RunApiKeyAuth

SpecKey == InitKey /\ [][NextKey]_vars

(***************************************************************************)
(* Properties of apiKeyAuth (SpecKey)                                      *)
(***************************************************************************)
\* API keys are configured: API_KEYS is set and not empty
KeysConfigured == env.API_KEYS \notin {NoApiKey, Str(<<>>)}
ConfiguredKeys == {SplitComma(env.API_KEYS[2])[i] : i \in 1..Len(SplitComma(env.API_KEYS[2]))}
\* the health, docs and auth endpoints
BypassesKey(path) ==
    \/ StartsWith(path, <<"/api/v1", "/health">>)
    \/ StartsWith(path, <<"/api-docs">>)
    \/ StartsWith(path, <<"/api/v1", "/auth">>)

\* C22: with API keys configured the health, docs and auth endpoints pass
\* without a key and every other endpoint is reached only with a
\* configured key in X-API-Key (none: 401 'API key is required'; an unknown
\* one: 401 'Invalid API key'); with no API keys configured every request
\* passes.
C22_ApiKeyGate ==
    probe.out \notin {"none", "pending"} =>
        IF ~KeysConfigured \/ BypassesKey(probe.path) THEN probe.out = "next"
        ELSE IF probe.key \in {NoApiKey, Str(<<>>)} THEN probe.res = ApiKeyRequired
        ELSE IF probe.key[2] \notin ConfiguredKeys THEN probe.res = InvalidApiKey
        ELSE probe.out = "next"

(***************************************************************************)
(* SpecRate: the rate limiters alone.  One client sends requests to one    *)
(* path as fast and as long as it likes; another client sends a request    *)
(* to the same path; minutes pass.                                         *)
(***************************************************************************)
RatePaths ==
    {<<"/">>, <<"/api/v1", "/health">>, <<"/api-docs">>, <<"/api/v1", "/auth", "/login">>,
     <<"/api/v1", "/users">>}
\* the instants at which requests arrive, in minutes
RateInstants == {0, 1, 14, 15, 16}
\* the requests of the other client
MaxOtherHits == 1

InitRate ==
    /\ limits = NoLimits
    /\ probe \in {[NoProbe EXCEPT !.path = p] : p \in RatePaths}
    /\ freed = {}
    /\ failure = NoFailure
    /\ enumAllowsNull = FALSE
    /\ env = [JWT_SECRET |-> Secret, API_KEYS |-> NoApiKey]
    /\ now = 0
    /\ users = <<>>
    /\ nextId = 1
    /\ issued = {}
    /\ plain = <<>>
    /\ reqs = [s \in {1} |-> Idle]

\* a request of client ip to the path arrives at the limiters; a client is
\* followed up to its first refusal by each limiter in a window
RateLimited(ip) ==
    LET r == RunLimiters(1, limits, probe.path, ip, now)
    IN  /\ \A n \in DOMAIN RateLimiter :
                Mounted(n, probe.path) => r.store[n][ip].hits <= RateLimiter[n].max + 1
        /\ ip # "ip1" => \A n \in DOMAIN RateLimiter : limits[n][ip].hits < MaxOtherHits
        /\ limits' = IF r.res = NoRes THEN Reached(r.store, probe.path, ip) ELSE r.store
        /\ probe' = [probe EXCEPT !.ip = ip, !.res = r.res,
                                  !.out = IF r.res = NoRes THEN "next" ELSE "sent"]
        /\ UNCHANGED <<freed, failure, enumAllowsNull, env, now, users, nextId, issued, plain, reqs>>

\* time passes up to the next instant
Elapse ==
    /\ \E t \in RateInstants : t > now
    /\ now' = CHOOSE t \in RateInstants : t > now /\ \A u \in RateInstants : u > now => t <= u
    /\ probe' = [probe EXCEPT !.out = "none", !.res = NoRes]
    /\ UNCHANGED <<limits, freed, failure, enumAllowsNull, env, users, nextId, issued, plain, reqs>>

NextRate ==
    \/ \E ip \in Clients : RateLimited(ip)
    \/ Elapse

SpecRate == InitRate /\ [][NextRate]_vars

(***************************************************************************)
(* Properties of the rate limiters (SpecRate)                              *)
(***************************************************************************)
\* a request of client ip has just been seen by the limiters
Requested(ip) == probe'.out # "none" /\ probe'.ip = ip /\ limits' # limits
\* the hits of the client in the window of limiter n that holds instant t
HitsAt(n, ip, t) == IF limits[n][ip].resetTime <= t THEN 0 ELSE limits[n][ip].hits

\* C23: each limiter counts per client IP and per category, in windows of
\* its length that begin with a request of the client: in a window at most
\* 5 requests of a client to /api/v1/auth, 30 to /api/v1/health, 20 to
\* /api-docs and 100 to /api/v1 go on to the routers; a request beyond the
\* limit is answered with the 'Too many requests' body; a request to
\* /api/v1/auth that is let through counts for the auth and for the
\* general limiter; the requests of one client change no count of another.
C23_RateLimitsPerClient ==
    /\ [](\A n \in DOMAIN RateLimiter : \A ip \in Clients :
            /\ limits[n][ip].passed <= RateLimiter[n].max
            /\ limits[n][ip].passed <= limits[n][ip].hits
            /\ limits[n][ip].hits > 0 =>
                    limits[n][ip].resetTime - RateLimiter[n].window \in 0..now)
    /\ [](RateLimiter.auth.max = 5 /\ RateLimiter.auth.window = 15
            /\ RateLimiter.health.max = 30 /\ RateLimiter.health.window = 1
            /\ RateLimiter.docs.max = 20 /\ RateLimiter.docs.window = 5
            /\ RateLimiter.general.max = 100 /\ RateLimiter.general.window = 15)
    /\ [][\A ip \in Clients : Requested(ip) =>
            LET beyond == {n \in DOMAIN RateLimiter :
                            Mounted(n, probe.path) /\ HitsAt(n, ip, now) >= RateLimiter[n].max}
            IN  /\ beyond # {} <=> probe'.res = TooManyRequests
                /\ beyond = {} <=> probe'.out = "next"
                /\ beyond = {} => \A n \in DOMAIN RateLimiter :
                        Mounted(n, probe.path) =>
                            /\ limits'[n][ip].hits = HitsAt(n, ip, now) + 1
                            /\ limits'[n][ip].passed = limits'[n][ip].hits
                /\ \A n \in DOMAIN RateLimiter : \A other \in Clients \ {ip} :
                        limits'[n][other] = limits[n][other]
                /\ \A n \in DOMAIN RateLimiter :
                        ~Mounted(n, probe.path) => limits'[n] = limits[n]]_vars

\* C23 witness: a client is beyond the auth limit, its five requests that
\* went through count for the general limiter too, and a request of another
\* client has just gone through
C23_Witness ==
    /\ probe.path = <<"/api/v1", "/auth", "/login">>
    /\ limits.auth["ip1"].hits = 6 /\ limits.auth["ip1"].passed = 5
    /\ limits.general["ip1"].hits = 5
    /\ probe.ip = "ip2" /\ probe.out = "next"

(***************************************************************************)
(* SpecList: the pages of GET /api/v1/users.  One request at a time; two   *)
(* administrators list the identities with every page and limit.           *)
(***************************************************************************)
ListNumbers == {Absent, "abc", "0", "1", "2", "3", "-1", "-2"}
ListQueries == {[NoQuery EXCEPT !.page = p, !.limit = l] : p, l \in ListNumbers}

ListRequests ==
    {Input("register", NoHeader, b, BadId, NoQuery) : b \in DelBodies}
    \cup {Input("list", <<Bearer, t>>, NoBody, BadId, query) :
            query \in ListQueries, t \in issued}

InitList == InitWith({1}, {FALSE})

NextList ==
    \/ \E s \in DOMAIN reqs, r \in ListRequests : Receive(s, r)
    \/ \E s \in DOMAIN reqs : ProtectFindById(s)
    \/ \E s \in DOMAIN reqs : HashPassword(s, "s1")
    \/ \E s \in DOMAIN reqs : RegisterSave(s)
    \/ \E s \in DOMAIN reqs : GetUsersCount(s)
    \/ \E s \in DOMAIN reqs, found \in Orders(DOMAIN users) : GetUsersFind(s, found)
    \/ \E s \in DOMAIN reqs : Collect(s)

SpecList == InitList /\ [][NextList]_vars

(***************************************************************************)
(* Properties of the pages (SpecList)                                      *)
(***************************************************************************)
\* the page and the limit of a query: the number given, or 1 and 10 when it
\* is absent, zero or not a number
PageOf(query) == ParseIntOr(query.page, 1)
LimitOf(query) == ParseIntOr(query.limit, 10)

\* the response r is the page p, of l identities at most, of T identities
PageOfTotal(r, p, l, T) ==
    /\ r.status = 200
    /\ r.body.count <= l
    /\ r.body.currentPage = p
    /\ r.body.totalPages = CeilDiv(T, l)
    /\ "next" \in DOMAIN r.body.pagination <=> p * l < T
    /\ "prev" \in DOMAIN r.body.pagination <=> (p - 1) * l > 0
    /\ p * l < T => r.body.pagination.next = [page |-> p + 1, limit |-> l]
    /\ (p - 1) * l > 0 => r.body.pagination.prev = [page |-> p - 1, limit |-> l]

\* C24: GET /api/v1/users with T identities, page p and limit l (1 and 10
\* when absent, zero or not a number) answers 200 with count <= l,
\* currentPage = p, totalPages = ceil(T / l), pagination.next = {page: p+1,
\* limit: l} exactly when p*l < T and pagination.prev = {page: p-1, limit:
\* l} exactly when (p-1)*l > 0.
C24_PagesOfTheList ==
    \A s \in DOMAIN reqs :
        LET q == reqs[s]
        IN  q.pc = "done" /\ q.ep = "list" /\ Handled(q)
                => PageOfTotal(q.res, PageOf(q.q), LimitOf(q.q), Cardinality(DOMAIN users))

(***************************************************************************)
(* SpecRole: changes of role against tokens already issued.  One request   *)
(* at a time; u1 registers as administrator and u2 as employee, tokens     *)
(* come from registration only, and every route of the users router is     *)
(* called with every token held.                                           *)
(***************************************************************************)
RoleBodies ==
    {Body("u1", "a@x.com", "administrator", GatePassword),
     Body("u2", "b@x.com", "employee", GatePassword)}

RoleRequests ==
    {Input("register", NoHeader, b, BadId, NoQuery) : b \in RoleBodies}
    \cup {Input("list", <<Bearer, t>>, NoBody, BadId, NoQuery) : t \in issued}
    \cup {Input("create", <<Bearer, t>>, b, BadId, NoQuery) : b \in RoleBodies, t \in issued}
    \cup {Input(ep, <<Bearer, t>>, NoBody, id, NoQuery) :
            ep \in {"get", "delete"}, id \in 1..MaxIds, t \in issued}
    \cup {Input("update", <<Bearer, t>>, b, id, NoQuery) :
            b \in GateUpdates, id \in 1..MaxIds, t \in issued}

InitRole == InitWith({1}, {FALSE})

NextRole ==
    \/ \E s \in DOMAIN reqs, r \in RoleRequests : Receive(s, r)
    \/ \E s \in DOMAIN reqs : ProtectFindById(s)
    \/ \E s \in DOMAIN reqs : HashPassword(s, "s1")
    \/ \E s \in DOMAIN reqs : RegisterSave(s)
    \/ \E s \in DOMAIN reqs : CreateUserSave(s)
    \/ \E s \in DOMAIN reqs : GetUserFindById(s)
    \/ \E s \in DOMAIN reqs : GetUsersCount(s)
    \/ \E s \in DOMAIN reqs, found \in Orders(DOMAIN users) : GetUsersFind(s, found)
    \/ \E s \in DOMAIN reqs : UpdateUserDb(s)
    \/ \E s \in DOMAIN reqs : DeleteUserDb(s)
    \/ \E s \in DOMAIN reqs : Collect(s)

SpecRole == InitRole /\ [][NextRole]_vars

(***************************************************************************)
(* Properties of the role at the time of the request (SpecRole)            *)
(***************************************************************************)
\* the role with which the identity named name was registered, which is its
\* role when its tokens were issued
RegisteredRole(name) == (CHOOSE b \in RoleBodies : b.username = name).role

\* the gates answer the request of slot s in this step, the identity of its
\* token being stored
GatesDecide(s) ==
    /\ reqs[s].pc = "protect" /\ reqs'[s].pc # "protect"
    /\ reqs[s].ep \in UsersRoutes
    /\ reqs[s].sub \in DOMAIN users

\* C25: on the routes of the users router the gates decide by the role the
\* identity of the token has in the store when the request is made (the
\* store is read again at every request), whatever its role when the token
\* was issued: stored as administrator the request is admitted to its
\* handler, stored with another role it is answered 403 naming that role.
C25_StoredRoleDecides ==
    [][\A s \in DOMAIN reqs :
        GatesDecide(s) =>
            IF users[reqs[s].sub].role = "administrator"
            THEN /\ reqs'[s].user.role = "administrator"
                 /\ SubSeq(reqs'[s].ran, 1, 3) = <<"protect", "authorize", reqs[s].ep>>
            ELSE /\ reqs'[s].pc = "done"
                 /\ reqs'[s].res = Forbidden(users[reqs[s].sub].role)
                 /\ reqs'[s].ran = <<"protect", "authorize">>]_vars

\* C25 witness: u1, whose token was issued to an administrator, is answered
\* 403 as a client, and u2, registered as employee, is an administrator
C25_Witness ==
    \E s \in DOMAIN reqs, i \in DOMAIN users :
        LET q == reqs[s]
        IN  /\ q.pc = "done" /\ q.ep \in UsersRoutes
            /\ q.sub \in DOMAIN users
            /\ users[q.sub].username = "u1" /\ RegisteredRole("u1") = "administrator"
            /\ q.res = Forbidden("client")
            /\ users[i].username = "u2" /\ RegisteredRole("u2") = "employee"
            /\ users[i].role = "administrator"

\* the registration of slot q was answered 201 with a token
Registered(q) == q.pc = "done" /\ q.ep = "register" /\ q.res.status = 201

RegisterAnswered(s) ==
    reqs[s].ep = "register" /\ reqs[s].pc # "done" /\ reqs'[s].pc = "done"

\* C27: a registration answered 400 or 500 leaves the stored identities as
\* they were, the missing signing secret included; a registration stores an
\* identity only in the step that answers it 201 with a token.
C27_RegisterErrorStoresNothing ==
    [][\A s \in DOMAIN reqs :
        /\ RegisterAnswered(s) /\ reqs'[s].res.status \in {400, 500} => users' = users
        /\ reqs[s].ep = "register" /\ reqs[s].pc # "idle" /\ users' # users
            => /\ RegisterAnswered(s)
               /\ reqs'[s].res.status = 201
               /\ "token" \in DOMAIN reqs'[s].res.body]_vars

====
